---- MODULE Spec2Model ----
(***************************************************************************)
(* A model of src/space.rs (the Dimension trait, its implementations and   *)
(* the Dataspace wrapper over the HDF5 runtime) and of the random          *)
(* generators of hdf5-rs/tests/common/gen.rs.                              *)
(***************************************************************************)
EXTENDS Integers, Sequences, FiniteSets, TLC

VARIABLES
    rtKind,      \* runtime object table: identifier -> kind reported by the runtime
    rtDims,      \* runtime object table: identifier -> current extents of a dataspace
    failNdims,   \* identifiers on which the runtime's rank query currently fails
    failDims,    \* identifiers on which the runtime's extents query currently fails
    nextId,      \* next identifier the runtime hands out
    closeCalls,  \* identifier -> number of release calls the runtime has received
    owners,      \* identifier -> number of Dataspace values in scope whose Handle holds it
    envSteps,    \* runtime events caused by code outside this layer, so far
    aborted,     \* the process died on a memory fault
    last,        \* what the most recent call of this layer returned
    gen          \* the generator being run (gen.rs): its locals and position

vars == <<rtKind, rtDims, failNdims, failDims, nextId, closeCalls, owners, envSteps, aborted, last, gen>>
rtVars == <<rtKind, rtDims, failNdims, failDims, nextId, closeCalls>>

\* ---------------------------------------------------------------- bounds
MaxIx == 2       \* extents are drawn from 0..MaxIx
MaxLen == 2      \* longest Vec<Ix> given as a shape
MaxIds == 2      \* identifiers the runtime hands out in one run
MaxObjs == 2     \* Dataspace values made in one run
MaxEnv == 2      \* runtime events caused by code outside this layer

NoId == 0 - 1
Ids == 1..MaxIds
IxVals == 0..MaxIx
\* the identifiers a caller may pass to from_id: one the runtime never hands
\* out, and those it does
WrapIds == {NoId} \cup Ids

\* c_int is 32 bits wide (libc::c_int)
CIntMax == 2147483647

\* ------------------------------------------------------- small helpers
RECURSIVE SeqsUpTo(_, _)
SeqsUpTo(S, n) ==
    IF n = 0 THEN {<<>>}
    ELSE LET shorter == SeqsUpTo(S, n - 1)
         IN  shorter \cup {Append(s, x) : s \in {t \in shorter : Len(t) = n - 1}, x \in S}

\* dims.iter().fold(1, |acc, &el| acc * el)
RECURSIVE Fold(_, _)
Fold(s, acc) == IF s = <<>> THEN acc ELSE Fold(Tail(s), acc * Head(s))

\* the mathematical product of a sequence of extents (1 for the empty sequence)
RECURSIVE Product(_)
Product(s) == IF Len(s) = 0 THEN 1 ELSE s[1] * Product(SubSeq(s, 2, Len(s)))

\* `rank as c_int`: the low 32 bits of the value, read as signed
AsCInt(n) == IF n <= CIntMax THEN n ELSE n - CIntMax - CIntMax - 2

\* ------------------------------------------------- the HDF5 runtime (ffi)
\* get_id_type(id): the kind the runtime reports, H5I_BADID for anything it
\* does not know (negative, never handed out, already released)
get_id_type_in(table, id) == IF id \in Ids THEN table[id] ELSE "H5I_BADID"

get_id_type(id) == get_id_type_in(rtKind, id)

\* H5Sget_simple_extent_ndims(id): the rank, negative on failure
H5Sget_simple_extent_ndims(id) ==
    IF get_id_type(id) = "H5I_DATASPACE" /\ id \notin failNdims
    THEN Len(rtDims[id]) ELSE 0 - 1

\* H5Sget_simple_extent_dims(id, buf, NULL): fills buf, returns the rank,
\* negative on failure
H5Sget_simple_extent_dims(id) ==
    IF get_id_type(id) = "H5I_DATASPACE" /\ id \notin failDims
    THEN [ret |-> Len(rtDims[id]), buf |-> rtDims[id]]
    ELSE [ret |-> 0 - 1, buf |-> <<>>]

\* h5call!(expr): Ok(value) unless the runtime returned a negative value
h5call(ret) == [ok |-> ret >= 0, val |-> ret]

\* ------------------------------------------------------------ Dimension
\* A shape description: tag names the implementing type, xs its integers,
\* ref whether it is passed as &T, id the identifier its Handle holds (tag "space").
Shape(tag, xs, ref, id) == [tag |-> tag, xs |-> xs, ref |-> ref, id |-> id]
NoShape == Shape("none", <<>>, FALSE, NoId)

ValueShapes ==
    {Shape("unit", <<>>, r, NoId) : r \in BOOLEAN}
    \cup {Shape("ix", <<a>>, r, NoId) : a \in IxVals, r \in BOOLEAN}
    \cup {Shape("tuple1", <<a>>, r, NoId) : a \in IxVals, r \in BOOLEAN}
    \cup {Shape("tuple2", <<a, b>>, r, NoId) : a \in IxVals, b \in IxVals, r \in BOOLEAN}
    \cup {Shape("vec", v, r, NoId) : v \in SeqsUpTo(IxVals, MaxLen), r \in BOOLEAN}

\* the Dataspace values in scope, passed by reference
SpaceShapes == {Shape("space", <<>>, TRUE, i) : i \in {j \in Ids : owners[j] > 0}}

\* the shapes tests::test_dimension passes, over the integers 3 and 4
SampleShapes ==
    {Shape("unit", <<>>, r, NoId) : r \in BOOLEAN}
    \cup {Shape("ix", <<3>>, r, NoId) : r \in BOOLEAN}
    \cup {Shape("tuple1", <<3>>, r, NoId) : r \in BOOLEAN}
    \cup {Shape("tuple2", <<3, 4>>, r, NoId) : r \in BOOLEAN}
    \cup {Shape("vec", <<3, 4>>, r, NoId) : r \in BOOLEAN}

Shapes == SampleShapes \cup SpaceShapes

\* impl Dimension for Dataspace: ndim
Dataspace_ndim(id) ==
    LET r == h5call(H5Sget_simple_extent_ndims(id))
    IN  IF r.ok THEN r.val ELSE 0

\* impl Dimension for Dataspace: dims
Dataspace_dims_cached(id) ==
    IF last.op = "describe" /\ last.id = id THEN last.dims
    ELSE LET k == Dataspace_ndim(id)
             q == H5Sget_simple_extent_dims(id)
         IN  IF k > 0 /\ h5call(q.ret).ok THEN [i \in 1..k |-> q.buf[i]] ELSE <<>>

Dataspace_dims(id) ==
    LET ndim == Dataspace_ndim(id)
        q == H5Sget_simple_extent_dims(id)
    IN  IF ndim > 0 /\ h5call(q.ret).ok
        THEN [i \in 1..ndim |-> q.buf[i]]
        ELSE <<>>

\* Dimension::ndim of each implementation (&T forwards to T)
ndim(d) ==
    CASE d.tag = "unit"   -> 0
      [] d.tag = "ix"     -> 1
      [] d.tag = "tuple1" -> 1
      [] d.tag = "tuple2" -> 2
      [] d.tag = "vec"    -> Len(d.xs)
      [] d.tag = "space"  -> Dataspace_ndim(d.id)

\* Dimension::dims of each implementation (&T forwards to T)
dims(d) ==
    CASE d.tag = "unit"   -> <<>>
      [] d.tag = "ix"     -> <<d.xs[1]>>
      [] d.tag = "tuple1" -> <<d.xs[1]>>
      [] d.tag = "tuple2" -> <<d.xs[1], d.xs[2]>>
      [] d.tag = "vec"    -> d.xs
      [] d.tag = "space"  -> Dataspace_dims(d.id)

\* Dimension::size, the provided method
size(d) ==
    LET ds == dims(d)
    IN  IF ds = <<>> THEN 0 ELSE Fold(ds, 1)

\* --------------------------------------------------------------- Handle
\* Handle::new(id): an owning handle, unless the runtime knows no kind for id
Handle_new_ok(table, id) == get_id_type_in(table, id) # "H5I_BADID"

\* --------------------------------------------------------- ID::from_id
from_id_unchecked(table, id) == Handle_new_ok(table, id)

\* impl ID for Dataspace: from_id, TRUE for Ok(Dataspace), FALSE for Err
from_id(table, id) ==
    IF get_id_type_in(table, id) = "H5I_DATASPACE"
    THEN Handle_new_ok(table, id)
    ELSE FALSE

\* ------------------------------------------------------ returned values
Quiet ==
    [op |-> "none", ok |-> TRUE, d |-> NoShape, id |-> NoId,
     ndim |-> 0, dims |-> <<>>, size |-> 0, rankErr |-> FALSE, dimsErr |-> FALSE,
     created |-> FALSE, kind |-> "H5I_BADID", gone |-> FALSE]

\* a generator call: kind the implementing type, cap its A::capacity(), len the
\* drawn length, i the iterations of its for loop so far, s the bytes, scalars
\* or elements pushed, c the scalar drawn last, broke whether the loop was left
\* by break, pc the position in gen()
Idle == [kind |-> "idle", cap |-> 0, len |-> 0, i |-> 0, s |-> <<>>, c |-> 0,
         broke |-> FALSE, pc |-> "idle"]

RECURSIVE Sum(_, _)
Sum(f, S) == IF S = {} THEN 0 ELSE LET x == CHOOSE y \in S : TRUE IN f[x] + Sum(f, S \ {x})

\* the Dataspace values made so far: those in scope and those dropped
Made == Sum(owners, Ids) + Sum(closeCalls, Ids)

LiveSpaces == {i \in Ids : rtKind[i] = "H5I_DATASPACE"}

Init ==
    /\ rtKind = [i \in Ids |-> "H5I_BADID"]
    /\ rtDims = [i \in Ids |-> <<>>]
    /\ failNdims = {}
    /\ failDims = {}
    /\ nextId = 1
    /\ closeCalls = [i \in Ids |-> 0]
    /\ owners = [i \in Ids |-> 0]
    /\ envSteps = 0
    /\ aborted = FALSE
    /\ last = Quiet
    /\ gen = Idle

\* ------------------------------------------------------ Dataspace::new
\* the loop of Dataspace::new: dims.push(*dim as hsize_t), in the order of d.dims()
NewDims_reversed(ds) == [i \in 1..Len(ds) |-> ds[Len(ds) + 1 - i]]
NewDims(ds) == [i \in 1..Len(ds) |-> ds[i]]

\* H5Screate_simple(rank, dims, max_dims) reads rank extents from dims. Every
\* maximum extent passed is H5S_UNLIMITED. The call may fail; on success the
\* runtime hands out the next identifier for a dataspace of those extents.
\* When dims holds fewer than rank extents (an empty Vec's pointer is the
\* dangling, never-mapped alignment address) the read faults.
New(d) ==
    LET rank == ndim(d)
        args == NewDims(dims(d))
        crank == AsCInt(rank)
    IN  /\ ~aborted
        /\ Made < MaxObjs
        /\ nextId <= MaxIds
        /\ UNCHANGED <<failNdims, failDims, closeCalls, envSteps, gen>>
        /\ IF Len(args) < crank
           THEN /\ aborted' = TRUE
                /\ last' = [Quiet EXCEPT !.op = "new", !.ok = FALSE,
                                         !.ndim = rank, !.dims = args]
                /\ UNCHANGED <<rtKind, rtDims, nextId, owners>>
           ELSE \E created \in BOOLEAN :
                  /\ UNCHANGED aborted
                  /\ IF created /\ crank >= 0
                     THEN LET id == nextId
                              table == [rtKind EXCEPT ![id] = "H5I_DATASPACE"]
                              ok == from_id(table, id)
                          IN  /\ rtKind' = table
                              /\ rtDims' = [rtDims EXCEPT ![id] = SubSeq(args, 1, crank)]
                              /\ nextId' = nextId + 1
                              /\ owners' = IF ok THEN [owners EXCEPT ![id] = @ + 1]
                                           ELSE owners
                              /\ last' = [Quiet EXCEPT !.op = "new", !.ok = ok,
                                            !.id = id, !.created = TRUE,
                                            !.ndim = rank, !.dims = args,
                                            !.kind = "H5I_DATASPACE"]
                     ELSE /\ last' = [Quiet EXCEPT !.op = "new", !.ok = FALSE,
                                                   !.ndim = rank, !.dims = args]
                          /\ UNCHANGED <<rtKind, rtDims, nextId, owners>>

\* a caller wraps an identifier it holds: Dataspace::from_id(id)
FromId(id) ==
    LET ok == from_id(rtKind, id)
    IN  /\ ~aborted
        /\ ok => Made < MaxObjs
        /\ owners' = IF ok THEN [owners EXCEPT ![id] = @ + 1] ELSE owners
        /\ last' = [Quiet EXCEPT !.op = "from_id", !.ok = ok, !.id = id,
                      !.kind = get_id_type(id),
                      !.gone = (id \in Ids /\ closeCalls[id] > 0
                                /\ get_id_type(id) = "H5I_BADID")]
        /\ UNCHANGED <<rtVars, envSteps, aborted, gen>>

\* a Dataspace holding id goes out of scope: its Handle is dropped, which
\* calls the runtime's release once; a failed release is only reported
Drop(id) ==
    /\ ~aborted
    /\ owners[id] > 0
    /\ closeCalls' = [closeCalls EXCEPT ![id] = @ + 1]
    /\ owners' = [owners EXCEPT ![id] = @ - 1]
    /\ \E released \in BOOLEAN :
         /\ released => get_id_type(id) # "H5I_BADID"
         /\ rtKind' = IF released THEN [rtKind EXCEPT ![id] = "H5I_BADID"] ELSE rtKind
         /\ failNdims' = IF released THEN failNdims \ {id} ELSE failNdims
         /\ failDims' = IF released THEN failDims \ {id} ELSE failDims
         /\ rtDims' = IF released THEN [rtDims EXCEPT ![id] = <<>>] ELSE rtDims
         /\ last' = [Quiet EXCEPT !.op = "drop", !.ok = released, !.id = id]
    /\ UNCHANGED <<nextId, envSteps, aborted, gen>>

\* f(d) of tests::test_dimension: (d.ndim(), d.dims(), d.size())
Describe(d) ==
    /\ ~aborted
    /\ last' = [Quiet EXCEPT !.op = "describe", !.d = d, !.id = d.id,
                  !.ndim = ndim(d), !.dims = dims(d), !.size = size(d),
                  !.rankErr = (d.tag = "space"
                               /\ ~h5call(H5Sget_simple_extent_ndims(d.id)).ok),
                  !.dimsErr = (d.tag = "space" /\ Dataspace_ndim(d.id) > 0
                               /\ ~h5call(H5Sget_simple_extent_dims(d.id).ret).ok)]
    /\ UNCHANGED <<rtVars, owners, envSteps, aborted, gen>>

\* ------------------------------------------ the rest of the process
\* the call-through layer creates an object of another kind
ExtCreate ==
    /\ ~aborted
    /\ envSteps < MaxEnv
    /\ envSteps' = envSteps + 1
    /\ nextId <= MaxIds
    /\ rtKind' = [rtKind EXCEPT ![nextId] = "H5I_DATATYPE"]
    /\ nextId' = nextId + 1
    /\ UNCHANGED <<rtDims, failNdims, failDims, closeCalls, owners, aborted, last, gen>>

\* other code changes the extents of a live dataspace through the runtime;
\* the extents followed are ones no sample shape has
EnvExtents == {<<4, 3>>}

ExtSetExtent(id, xs) ==
    /\ ~aborted
    /\ envSteps < MaxEnv
    /\ envSteps' = envSteps + 1
    /\ id \in LiveSpaces
    /\ rtDims[id] # xs
    /\ rtDims' = [rtDims EXCEPT ![id] = xs]
    /\ UNCHANGED <<rtKind, failNdims, failDims, nextId, closeCalls, owners, aborted, last, gen>>

\* the runtime starts or stops failing a query on a live dataspace
RankFault(id) ==
    /\ ~aborted
    /\ envSteps < MaxEnv
    /\ envSteps' = envSteps + 1
    /\ id \in LiveSpaces
    /\ failNdims' = IF id \in failNdims THEN failNdims \ {id} ELSE failNdims \cup {id}
    /\ UNCHANGED <<rtKind, rtDims, failDims, nextId, closeCalls, owners, aborted, last, gen>>

DimsFault(id) ==
    /\ ~aborted
    /\ envSteps < MaxEnv
    /\ envSteps' = envSteps + 1
    /\ id \in LiveSpaces
    /\ failDims' = IF id \in failDims THEN failDims \ {id} ELSE failDims \cup {id}
    /\ UNCHANGED <<rtKind, rtDims, failNdims, nextId, closeCalls, owners, aborted, last, gen>>

Next ==
    \/ \E d \in Shapes : New(d)
    \/ \E id \in WrapIds : FromId(id)
    \/ \E id \in Ids : Drop(id)
    \/ \E d \in Shapes : Describe(d)
    \/ ExtCreate
    \/ \E id \in Ids, xs \in EnvExtents : ExtSetExtent(id, xs)
    \/ \E id \in Ids : RankFault(id)
    \/ \E id \in Ids : DimsFault(id)

Spec == Init /\ [][Next]_vars

\* ------------------------------------------------- gen.rs: random sources
MaxCapacity == 3   \* largest declared capacity A::capacity() generated for

\* the upper bound of every variable-length draw: Uniform::new_inclusive(0, 8)
VarLenMax == 8
\* Uniform::new_inclusive(0, 127)
AsciiMax == 127

\* the u8 values followed, and the draws of Uniform::new_inclusive(0, 127)
ByteSamples == {0, 65, 127, 128, 255}
AsciiDist == {b \in ByteSamples : 0 <= b /\ b <= AsciiMax}

\* rng.gen::<char>(): the scalar values followed, one of each encoded length
\* besides the null scalar: U+0000, 'A', U+00E9, U+20AC, U+1F600
CharSamples == {0, 65, 233, 8364, 128512}

\* char::len_utf8
len_utf8(c) == IF c < 128 THEN 1 ELSE IF c < 2048 THEN 2 ELSE IF c < 65536 THEN 3 ELSE 4

\* String::len / s.as_bytes().len(): the encoded length of a sequence of scalars
RECURSIVE Utf8Len(_)
Utf8Len(s) == IF s = <<>> THEN 0 ELSE len_utf8(Head(s)) + Utf8Len(Tail(s))

\* Gen for Enum: [Enum::X, Enum::Y].choose(rng), as the discriminants
EnumValues == {0 - 2, 3}

\* the length draw of the fixed-capacity generators: Uniform::new_inclusive(0, A::capacity())
FixedLenDist_over(cap) == 0..(cap + 1)
FixedLenDist(cap) == 0..cap

\* the length draw of the variable-length generators: Uniform::new_inclusive(0, 8)
VarLenDist == 0..VarLenMax

\* FixedUnicode: the test that ends the loop before pushing c
FixedUnicode_full_late(bytes, c, len) == bytes + len_utf8(c) > len
FixedUnicode_full(bytes, c, len) == bytes + len_utf8(c) >= len

GenKinds == {"FixedAscii", "FixedUnicode", "VarLenAscii", "VarLenUnicode", "VarLenArray"}
Caps == 0..MaxCapacity

GenInit ==
    /\ rtKind = [i \in Ids |-> "H5I_BADID"]
    /\ rtDims = [i \in Ids |-> <<>>]
    /\ failNdims = {}
    /\ failDims = {}
    /\ nextId = 1
    /\ closeCalls = [i \in Ids |-> 0]
    /\ owners = [i \in Ids |-> 0]
    /\ envSteps = 0
    /\ aborted = FALSE
    /\ last = Quiet
    /\ \E k \in GenKinds, cap \in Caps :
         /\ (k \notin {"FixedAscii", "FixedUnicode"}) => cap = 0
         /\ gen = [Idle EXCEPT !.kind = k, !.cap = cap, !.pc = "start"]

notGen == <<rtKind, rtDims, failNdims, failDims, nextId, closeCalls, owners, envSteps, aborted, last>>

\* impl Gen for FixedAscii<A>
FixedAscii_sample(len) ==
    /\ gen.kind = "FixedAscii" /\ gen.pc = "start"
    /\ len \in FixedLenDist(gen.cap)
    /\ gen' = [gen EXCEPT !.len = len, !.pc = "loop"]
    /\ UNCHANGED notGen

FixedAscii_push(b) ==
    /\ gen.kind = "FixedAscii" /\ gen.pc = "loop" /\ gen.i < gen.len
    /\ gen' = [gen EXCEPT !.s = Append(@, b), !.i = @ + 1]
    /\ UNCHANGED notGen

FixedAscii_done ==
    /\ gen.kind = "FixedAscii" /\ gen.pc = "loop" /\ gen.i = gen.len
    /\ gen' = [gen EXCEPT !.pc = "done"]
    /\ UNCHANGED notGen

\* impl Gen for FixedUnicode<A>
FixedUnicode_sample(len) ==
    /\ gen.kind = "FixedUnicode" /\ gen.pc = "start"
    /\ len \in FixedLenDist(gen.cap)
    /\ gen' = [gen EXCEPT !.len = len, !.pc = "loop"]
    /\ UNCHANGED notGen

FixedUnicode_step(c) ==
    /\ gen.kind = "FixedUnicode" /\ gen.pc = "loop" /\ gen.i < gen.len
    /\ IF c # 0
       THEN IF FixedUnicode_full(Utf8Len(gen.s), c, gen.len)
            THEN gen' = [gen EXCEPT !.c = c, !.broke = TRUE, !.pc = "done"]
            ELSE gen' = [gen EXCEPT !.c = c, !.s = Append(@, c), !.i = @ + 1]
       ELSE gen' = [gen EXCEPT !.c = c, !.i = @ + 1]
    /\ UNCHANGED notGen

FixedUnicode_done ==
    /\ gen.kind = "FixedUnicode" /\ gen.pc = "loop" /\ gen.i = gen.len
    /\ gen' = [gen EXCEPT !.pc = "done"]
    /\ UNCHANGED notGen

\* impl Gen for VarLenAscii
VarLenAscii_sample(len) ==
    /\ gen.kind = "VarLenAscii" /\ gen.pc = "start"
    /\ len \in VarLenDist
    /\ gen' = [gen EXCEPT !.len = len, !.pc = "loop"]
    /\ UNCHANGED notGen

VarLenAscii_push(b) ==
    /\ gen.kind = "VarLenAscii" /\ gen.pc = "loop" /\ gen.i < gen.len
    /\ gen' = [gen EXCEPT !.s = Append(@, b), !.i = @ + 1]
    /\ UNCHANGED notGen

VarLenAscii_done ==
    /\ gen.kind = "VarLenAscii" /\ gen.pc = "loop" /\ gen.i = gen.len
    /\ gen' = [gen EXCEPT !.pc = "done"]
    /\ UNCHANGED notGen

\* impl Gen for VarLenUnicode
VarLenUnicode_sample(len) ==
    /\ gen.kind = "VarLenUnicode" /\ gen.pc = "start"
    /\ len \in VarLenDist
    /\ gen' = [gen EXCEPT !.len = len, !.pc = "loop"]
    /\ UNCHANGED notGen

VarLenUnicode_step(c) ==
    /\ gen.kind = "VarLenUnicode" /\ gen.pc = "loop" /\ Utf8Len(gen.s) < gen.len
    /\ IF c # 0
       THEN gen' = [gen EXCEPT !.c = c, !.s = Append(@, c)]
       ELSE gen' = [gen EXCEPT !.c = c]
    /\ UNCHANGED notGen

VarLenUnicode_done ==
    /\ gen.kind = "VarLenUnicode" /\ gen.pc = "loop" /\ ~(Utf8Len(gen.s) < gen.len)
    /\ gen' = [gen EXCEPT !.pc = "done"]
    /\ UNCHANGED notGen

\* impl Gen for VarLenArray<T>, with T = Enum
VarLenArray_sample(len) ==
    /\ gen.kind = "VarLenArray" /\ gen.pc = "start"
    /\ len \in VarLenDist
    /\ gen' = [gen EXCEPT !.len = len, !.pc = "loop"]
    /\ UNCHANGED notGen

VarLenArray_push(x) ==
    /\ gen.kind = "VarLenArray" /\ gen.pc = "loop" /\ gen.i < gen.len
    /\ gen' = [gen EXCEPT !.s = Append(@, x), !.i = @ + 1]
    /\ UNCHANGED notGen

VarLenArray_done ==
    /\ gen.kind = "VarLenArray" /\ gen.pc = "loop" /\ gen.i = gen.len
    /\ gen' = [gen EXCEPT !.pc = "done"]
    /\ UNCHANGED notGen

GenNext ==
    \/ \E len \in 0..(MaxCapacity + 1) : FixedAscii_sample(len)
    \/ \E b \in AsciiDist : FixedAscii_push(b)
    \/ FixedAscii_done
    \/ \E len \in 0..(MaxCapacity + 1) : FixedUnicode_sample(len)
    \/ \E c \in CharSamples : FixedUnicode_step(c)
    \/ FixedUnicode_done
    \/ \E len \in 0..VarLenMax : VarLenAscii_sample(len)
    \/ \E b \in AsciiDist : VarLenAscii_push(b)
    \/ VarLenAscii_done
    \/ \E len \in 0..VarLenMax : VarLenUnicode_sample(len)
    \/ \E c \in CharSamples : VarLenUnicode_step(c)
    \/ VarLenUnicode_done
    \/ \E len \in 0..VarLenMax : VarLenArray_sample(len)
    \/ \E x \in EnumValues : VarLenArray_push(x)
    \/ VarLenArray_done

\* --------------------------------- the value shapes, as a pure function
\* d is drawn first, then f(d) is applied to it
ShapeInit ==
    /\ rtKind = [i \in Ids |-> "H5I_BADID"]
    /\ rtDims = [i \in Ids |-> <<>>]
    /\ failNdims = {}
    /\ failDims = {}
    /\ nextId = 1
    /\ closeCalls = [i \in Ids |-> 0]
    /\ owners = [i \in Ids |-> 0]
    /\ envSteps = 0
    /\ aborted = FALSE
    /\ last \in {[Quiet EXCEPT !.d = d] : d \in ValueShapes}
    /\ gen = Idle

ShapeNext == last.op = "none" /\ Describe(last.d)

SpecShape == ShapeInit /\ [][ShapeNext]_vars

SpecGen == GenInit /\ [][GenNext]_vars

\* the length of a generated value: bytes for text, elements for an array
GenLength == IF gen.kind \in {"FixedUnicode", "VarLenUnicode"} THEN Utf8Len(gen.s) ELSE Len(gen.s)

\* ------------------------------------------------------------ properties

\* C1: for every shape description d, size(d) is the product of dims(d) when
\* ndim(d) > 0 and 0 when ndim(d) = 0.
C1_SizeIsProduct ==
    last.op = "describe" =>
        last.size = IF last.ndim > 0 THEN Product(last.dims) ELSE 0

\* C2: the rank and the extents a live Dataspace reports agree: the length of
\* dims() is ndim(), also when a runtime query fails.
C2_RankMatchesExtents ==
    (last.op = "describe" /\ last.d.tag = "space") => Len(last.dims) = last.ndim

\* C3: right after a successful Dataspace::new(d), the new dataspace reports
\* ndim() = ndim(d) and dims() = dims(d), in the same axis order.
C3_RoundTrip ==
    [][\A d \in Shapes :
          (New(d) /\ last'.ok) =>
              /\ (Dataspace_ndim(last.id))' = ndim(d)
              /\ (Dataspace_dims(last.id))' = dims(d)]_vars

C3_Witness ==
    /\ last.op = "new" /\ last.ok
    /\ last.dims = <<3, 4>>
    /\ Dataspace_ndim(last.id) = 2
    /\ Dataspace_dims(last.id) = <<3, 4>>

\* C4: the runtime's release is called at most once for an identifier, over any
\* sequence of creations, wraps, scope exits and release failures.
C4_ReleasedOnce == \A id \in Ids : closeCalls[id] <= 1

\* C5: wrapping the identifier a successful creation returned never fails;
\* wrapping an identifier that was released, or whose kind is not dataspace,
\* fails and produces no Dataspace.
Released(id) == id \in Ids /\ closeCalls[id] > 0 /\ rtKind[id] = "H5I_BADID"

C5_WrapOutcome ==
    [][/\ \A d \in Shapes : (New(d) /\ last'.created) => (last'.ok /\ owners'[last'.id] = 1)
       /\ \A id \in WrapIds :
            (FromId(id) /\ (Released(id) \/ get_id_type(id) # "H5I_DATASPACE"))
                => (~last'.ok /\ owners' = owners)]_vars

C5_Witness == last.op = "from_id" /\ last.gone /\ ~last.ok /\ owners[last.id] = 0

\* C6: a failed runtime query never reaches the caller, and the Dataspace then
\* reports the zero shape: ndim() = 0, dims() = [] and size() = 0.
C6_FailedQueryGivesZeroShape ==
    (last.op = "describe" /\ last.d.tag = "space" /\ (last.rankErr \/ last.dimsErr))
        => (last.ndim = 0 /\ last.dims = <<>> /\ last.size = 0)

\* C9: every ndim()/dims() of a live Dataspace returns what the runtime holds
\* at the time of the call (the default when the query fails), never values
\* remembered from construction or from an earlier query.
RuntimeRank(id) ==
    IF id \in LiveSpaces /\ id \notin failNdims THEN Len(rtDims[id]) ELSE 0

RuntimeExtents(id) ==
    IF RuntimeRank(id) > 0 /\ id \notin failDims THEN rtDims[id] ELSE <<>>

C9_QueryReadsRuntime ==
    [][\A d \in SpaceShapes :
          Describe(d) => /\ last'.ndim = RuntimeRank(d.id)
                         /\ last'.dims = RuntimeExtents(d.id)]_vars

C9_Witness ==
    /\ last.op = "describe" /\ last.d.tag = "space"
    /\ envSteps > 0 /\ rtDims[last.id] = <<4, 3>>
    /\ last.dims = <<4, 3>> /\ last.ndim = 2

\* C7: a generated fixed-capacity text value is at most its declared capacity
\* long, in bytes; every byte of a FixedAscii is a 7-bit value.
C7_FixedWithinCapacity ==
    (gen.kind \in {"FixedAscii", "FixedUnicode"}) =>
        /\ GenLength <= gen.cap
        /\ gen.kind = "FixedAscii" => \A k \in 1..Len(gen.s) : gen.s[k] \in 0..127

C7_Witness ==
    /\ gen.kind = "FixedAscii" /\ gen.pc = "done"
    /\ gen.cap = MaxCapacity /\ Len(gen.s) = gen.cap
    /\ \E k \in 1..Len(gen.s) : gen.s[k] = 127

\* C8: every generated variable-length value has length in 0..8: the bytes of
\* a VarLenAscii, the bytes of a VarLenUnicode (scalars of 1 to 4 bytes, never
\* the null scalar), the elements of a VarLenArray.
C8_VarLenWithinEight ==
    (gen.kind \in {"VarLenAscii", "VarLenUnicode", "VarLenArray"} /\ gen.pc = "done") =>
        /\ GenLength \in 0..8
        /\ gen.kind = "VarLenUnicode" =>
             \A k \in 1..Len(gen.s) : gen.s[k] # 0 /\ len_utf8(gen.s[k]) \in 1..4

====
